---------------------------- MODULE Spec2Model ----------------------------
(***************************************************************************)
(* bloomsrv: a registry of named Bloom filters behind one reader/writer    *)
(* lock (src/src/lib.rs).  Each request handler takes the lock, works on   *)
(* the HashMap<String, FilterContainer> and drops the lock when it         *)
(* returns its response.                                                   *)
(*                                                                         *)
(* Strings are modelled as natural numbers: a filter name, a path token    *)
(* and the text of a UUID are all strings in the program, so a name can    *)
(* equal the text of an identifier; here they are numbers that can be      *)
(* equal.  The i-th UUID the process generates is the number i.            *)
(* A false-positive rate p is modelled by its exponent e, p = 2^-e, for    *)
(* which ln(p) = -e * ln(2) and the sizing formulas stay in the integers.  *)
(***************************************************************************)
EXTENDS Integers, FiniteSets, Sequences, Bags, TLC

\* ---- bounds ----
NumProcs == 2
MaxName == 2
MaxUuid == 2
MaxItem == 2

Procs == 1..NumProcs
Names == 1..MaxName
Uuids == 1..MaxUuid
Tokens == Names \cup Uuids
Items == 1..MaxItem

\* ---- Option<T> ----
None == [some |-> FALSE, val |-> 0]
Some(v) == [some |-> TRUE, val |-> v]

\* ---- HTTP status codes ----
OK == 200
CREATED == 201
BAD_REQUEST == 400
NOT_FOUND == 404
CONFLICT == 409

VARIABLES db, lock, pc, req, resp, uuids

vars == <<db, lock, pc, req, resp, uuids>>

\* ---- bloomlib::BloomFilter (external crate; modelled from the design) ----
\* ln(2) as a rational, Ln2Num / Ln2Den
Ln2Num == 693147
Ln2Den == 1000000

CeilDiv(a, b) == (a + b - 1) \div b
RoundDiv(a, b) == (2 * a + b) \div (2 * b)
Max(a, b) == IF a >= b THEN a ELSE b

\* m = ceil(k * n / ln 2), at least 1
SizeByHashCount(n, k) == Max(1, CeilDiv(k * n * Ln2Den, Ln2Num))
\* m = ceil(-(n ln p) / (ln 2)^2) = ceil(n * e / ln 2) for p = 2^-e, at least 1
SizeByRate(n, e) == Max(1, CeilDiv(n * e * Ln2Den, Ln2Num))
\* k = round((m / n) ln 2), at least 1 (with n = 0 the one-bit filter has k = 1)
HashCountByRate(n, e) ==
    IF n = 0 THEN 1
    ELSE Max(1, RoundDiv(SizeByRate(n, e) * Ln2Num, n * Ln2Den))

BloomFilter_new(n, mode) ==
    IF mode.kind = "FalsePositiveRate"
    THEN [m |-> SizeByRate(n, mode.val), k |-> HashCountByRate(n, mode.val), bits |-> {}]
    ELSE [m |-> SizeByHashCount(n, mode.val), k |-> mode.val, bits |-> {}]

\* two fixed base hashes of an item
Hash1(x) == 7 * x + 3
Hash2(x) == 5 * x + 1
Indices(f, x) == {(Hash1(x) + i * Hash2(x)) % f.m : i \in 0..(f.k - 1)}

BloomFilter_insert(f, x) == [f EXCEPT !.bits = @ \cup Indices(f, x)]
BloomFilter_contains(f, x) == Indices(f, x) \subseteq f.bits
BloomFilter_clear(f) == [f EXCEPT !.bits = {}]

\* ---- requests and responses ----
NoReq ==
    [op |-> "none", name |-> 0, item_count |-> 0, hash_count |-> None,
     false_positive_rate |-> None, item |-> 0]

\* the sizing fields of the create requests tried: each of the four ways to
\* give or leave out hash_count and false_positive_rate (hash_count 1, rate
\* 2^-2) for one expected item, and an item_count of 0
CreateParams ==
    {[item_count |-> 1, hash_count |-> h, false_positive_rate |-> r] :
        h \in {None, Some(1)}, r \in {None, Some(2)}}
    \cup {[item_count |-> 0, hash_count |-> Some(1), false_positive_rate |-> None]}

CreateRequests ==
    {[NoReq EXCEPT !.op = "create", !.name = n, !.item_count = c.item_count,
                   !.hash_count = c.hash_count,
                   !.false_positive_rate = c.false_positive_rate] :
        n \in Names, c \in CreateParams}

Requests ==
    CreateRequests
    \cup {[NoReq EXCEPT !.op = "delete", !.name = t] : t \in Tokens}
    \cup {[NoReq EXCEPT !.op = "list"]}
    \cup {[NoReq EXCEPT !.op = o, !.name = n, !.item = x] :
            o \in {"insert", "lookup"}, n \in Names, x \in Items}
    \cup {[NoReq EXCEPT !.op = "clear", !.name = n] : n \in Names}

\* a response: the status code and what the JSON body tells (the identifier, the
\* filter name its message quotes, the lookup's answer, the list)
NoResp == [status |-> 0, id |-> 0, name |-> 0, contains |-> FALSE, list |-> EmptyBag]
Status(s) == [NoResp EXCEPT !.status = s]
Named(s, name) == [NoResp EXCEPT !.status = s, !.name = name]

\* ---- RwLock<HashMap<..>> ----
Unlocked == [writer |-> 0, readers |-> {}]

CanWrite(l) == l.writer = 0 /\ l.readers = {}
CanRead(l) == l.writer = 0

\* mutant: filters_create takes the read lock
IsWriter_create_reads(o) == o \in {"delete", "insert", "clear"}
\* mutant: filter_insert takes the read lock
IsWriter_insert_reads(o) == o \in {"create", "delete", "clear"}
\* the handlers that take state.write(); filters_list and filter_lookup take
\* state.read()
IsWriter(o) == o \in {"create", "delete", "insert", "clear"}

\* ---- HashMap<String, FilterContainer> ----
EmptyMap == [k \in {} |-> 0]
HashMap_insert(d, key, c) == [k \in DOMAIN d \cup {key} |-> IF k = key THEN c ELSE d[k]]
\* mutant: the entry is removed from a copy of the map
HashMap_remove_none(d, key) == d
HashMap_remove(d, key) == [k \in DOMAIN d \ {key} |-> d[k]]

Init ==
    /\ db = EmptyMap
    /\ lock = Unlocked
    /\ pc = [p \in Procs |-> "idle"]
    /\ req = [p \in Procs |-> NoReq]
    /\ resp = [p \in Procs |-> NoResp]
    /\ uuids = 0

\* creates that may still draw a UUID (the model stops creating at MaxUuid)
InFlightCreates == {q \in Procs : pc[q] # "idle" /\ req[q].op = "create"}

\* a caller sends its next request and the handler is called; req[p] is the
\* caller's latest request and resp[p] the response to it, once it has come
Request(p) ==
    /\ pc[p] = "idle"
    /\ \E r \in Requests :
        /\ r.op = "create" => uuids + Cardinality(InFlightCreates) < MaxUuid
        /\ req' = [req EXCEPT ![p] = r]
        /\ pc' = [pc EXCEPT ![p] = "lock"]
    /\ resp' = [resp EXCEPT ![p] = NoResp]
    /\ UNCHANGED <<db, lock, uuids>>

\* state.write()
AcquireWrite(p) ==
    /\ pc[p] = "lock"
    /\ IsWriter(req[p].op)
    /\ CanWrite(lock)
    /\ lock' = [lock EXCEPT !.writer = p]
    /\ pc' = [pc EXCEPT ![p] = req[p].op]
    /\ UNCHANGED <<db, req, resp, uuids>>

\* state.read()
AcquireRead(p) ==
    /\ pc[p] = "lock"
    /\ ~IsWriter(req[p].op)
    /\ CanRead(lock)
    /\ lock' = [lock EXCEPT !.readers = @ \cup {p}]
    /\ pc' = [pc EXCEPT ![p] = req[p].op]
    /\ UNCHANGED <<db, req, resp, uuids>>

\* mutant: the guard is leaked (mem::forget) and the lock stays held
Release_leak(l, p) == l

\* the guard is dropped when the handler returns
Release(l, p) ==
    [writer |-> IF l.writer = p THEN 0 ELSE l.writer, readers |-> l.readers \ {p}]

Return(p, r) ==
    /\ resp' = [resp EXCEPT ![p] = r]
    /\ lock' = Release(lock, p)
    /\ pc' = [pc EXCEPT ![p] = "idle"]
    /\ UNCHANGED req

\* ---- filters_create ----
contains_key(d, name) == name \in DOMAIN d

NoMode == [kind |-> "none", val |-> 0]

\* mutant: a request without sizing fields falls back to one hash function
sizing_mode_default(payload) ==
    IF payload.false_positive_rate.some
    THEN [kind |-> "FalsePositiveRate", val |-> payload.false_positive_rate.val]
    ELSE [kind |-> "HashCount",
          val |-> IF payload.hash_count.some THEN payload.hash_count.val ELSE 1]

\* the if-let chain choosing the filter's sizing
sizing_mode(payload) ==
    IF payload.false_positive_rate.some
    THEN [kind |-> "FalsePositiveRate", val |-> payload.false_positive_rate.val]
    ELSE IF payload.hash_count.some
         THEN [kind |-> "HashCount", val |-> payload.hash_count.val]
         ELSE NoMode

\* mutant: every record gets the nil UUID
FilterContainer_nil_id(id, payload, mode) ==
    [id |-> 0, name |-> payload.name,
     filter |-> BloomFilter_new(payload.item_count, mode),
     capacity |-> payload.item_count, creation_mode |-> mode]

\* mutant: the new filter is seeded with the filter's own name
FilterContainer_seeded(id, payload, mode) ==
    [id |-> id, name |-> payload.name,
     filter |-> BloomFilter_insert(BloomFilter_new(payload.item_count, mode), payload.name),
     capacity |-> payload.item_count, creation_mode |-> mode]

\* mutant: the identifier is stored as the record's name
FilterContainer_named_by_id(id, payload, mode) ==
    [id |-> id, name |-> id,
     filter |-> BloomFilter_new(payload.item_count, mode),
     capacity |-> payload.item_count, creation_mode |-> mode]

FilterContainer(id, payload, mode) ==
    [id |-> id, name |-> payload.name,
     filter |-> BloomFilter_new(payload.item_count, mode),
     capacity |-> payload.item_count, creation_mode |-> mode]

\* mutant: the record is inserted first and a replaced entry reported as a
\* conflict (if db.insert(..).is_some())
create_check_replace(p) ==
    /\ pc[p] = "create"
    /\ IF contains_key(db, req[p].name)
       THEN /\ db' = HashMap_insert(db, req[p].name,
                        FilterContainer(uuids + 1, req[p], sizing_mode_default(req[p])))
            /\ uuids' = uuids + 1
            /\ Return(p, Named(CONFLICT, req[p].name))
       ELSE /\ pc' = [pc EXCEPT ![p] = "create_build"]
            /\ UNCHANGED <<db, uuids, lock, req, resp>>

\* mutant: the sizing fields are checked before the name
create_check_sizing_first(p) ==
    /\ pc[p] = "create"
    /\ IF sizing_mode(req[p]) = NoMode
       THEN Return(p, Status(BAD_REQUEST))
       ELSE IF contains_key(db, req[p].name)
            THEN Return(p, Named(CONFLICT, req[p].name))
            ELSE /\ pc' = [pc EXCEPT ![p] = "create_build"]
                 /\ UNCHANGED <<lock, req, resp>>
    /\ UNCHANGED <<db, uuids>>

\* the name check
create_check(p) ==
    /\ pc[p] = "create"
    /\ IF contains_key(db, req[p].name)
       THEN Return(p, Named(CONFLICT, req[p].name))
       ELSE /\ pc' = [pc EXCEPT ![p] = "create_build"]
            /\ UNCHANGED <<lock, req, resp>>
    /\ UNCHANGED <<db, uuids>>

\* Uuid::new_v4, the sizing, db.insert and the response
create_build(p) ==
    /\ pc[p] = "create_build"
    /\ LET id == uuids + 1
           mode == sizing_mode(req[p])
       IN /\ uuids' = id
          /\ IF mode = NoMode
             THEN /\ Return(p, Status(BAD_REQUEST))
                  /\ UNCHANGED db
             ELSE /\ db' = HashMap_insert(db, req[p].name, FilterContainer(id, req[p], mode))
                  /\ Return(p, [Named(CREATED, req[p].name) EXCEPT !.id = id])

\* ---- filters_delete ----
\* mutant: the scan compares the record's name, not its identifier
find_by_name(d, token) == {k \in DOMAIN d : d[k].name = token}

\* the keys db.iter().find(|(_, c)| c.id == id_or_name) can return
find_by_id(d, token) == {k \in DOMAIN d : d[k].id = token}

\* db.remove(&id_or_name)
delete_by_name(p) ==
    /\ pc[p] = "delete"
    /\ IF contains_key(db, req[p].name)
       THEN /\ db' = HashMap_remove(db, req[p].name)
            /\ Return(p, Named(OK, req[p].name))
       ELSE /\ pc' = [pc EXCEPT ![p] = "delete_scan"]
            /\ UNCHANGED <<db, lock, req, resp>>
    /\ UNCHANGED uuids

\* the scan by identifier
delete_by_id(p) ==
    /\ pc[p] = "delete_scan"
    /\ IF find_by_id(db, req[p].name) # {}
       THEN \E name \in find_by_id(db, req[p].name) :
               /\ db' = HashMap_remove(db, name)
               /\ Return(p, Named(OK, name))
       ELSE /\ UNCHANGED db
            /\ Return(p, Named(NOT_FOUND, req[p].name))
    /\ UNCHANGED uuids

\* ---- filters_list ----
config(mode) ==
    IF mode.kind = "FalsePositiveRate"
    THEN [text |-> "False positive rate: ", arg |-> mode.val]
    ELSE [text |-> "Hash count: ", arg |-> mode.val]

\* mutant: the entry reports the filter's bit count as its capacity
ListItem_bits(c) ==
    [id |-> c.id, name |-> c.name, item_count |-> c.filter.m, config |-> config(c.creation_mode)]

ListItem(c) ==
    [id |-> c.id, name |-> c.name, item_count |-> c.capacity, config |-> config(c.creation_mode)]

\* db.values().map(..).collect(): one ListItem per entry, in no particular order
list_of(d) ==
    [i \in {ListItem(d[k]) : k \in DOMAIN d} |->
        Cardinality({k \in DOMAIN d : ListItem(d[k]) = i})]

filters_list(p) ==
    /\ pc[p] = "list"
    /\ Return(p, [Status(OK) EXCEPT !.list = list_of(db)])
    /\ UNCHANGED <<db, uuids>>

\* ---- filter_insert ----
\* mutant: the item is inserted into a copy of the filter
insert_into_copy(d, name, item) == d

insert_into(d, name, item) ==
    [d EXCEPT ![name].filter = BloomFilter_insert(@, item)]

filter_insert(p) ==
    /\ pc[p] = "insert"
    /\ IF contains_key(db, req[p].name)
       THEN /\ db' = insert_into(db, req[p].name, req[p].item)
            /\ Return(p, Named(OK, req[p].name))
       ELSE /\ UNCHANGED db
            /\ Return(p, Named(NOT_FOUND, req[p].name))
    /\ UNCHANGED uuids

\* ---- filter_lookup ----
lookup_in(d, name, item) == BloomFilter_contains(d[name].filter, item)

filter_lookup(p) ==
    /\ pc[p] = "lookup"
    /\ IF contains_key(db, req[p].name)
       THEN Return(p, [Named(OK, req[p].name) EXCEPT
                           !.contains = lookup_in(db, req[p].name, req[p].item)])
       ELSE Return(p, Named(NOT_FOUND, req[p].name))
    /\ UNCHANGED <<db, uuids>>

\* ---- filter_clear ----
\* mutant: a copy of the filter is cleared
clear_in_copy(d, name) == d

\* mutant: the filter is rebuilt for one hash function, whatever its mode
clear_in_recreate(d, name) ==
    [d EXCEPT ![name].filter =
        BloomFilter_new(d[name].capacity, [kind |-> "HashCount", val |-> 1])]

\* mutant: every filter of the registry is cleared
clear_in_all(d, name) == [k \in DOMAIN d |-> [d[k] EXCEPT !.filter = BloomFilter_clear(@)]]

clear_in(d, name) == [d EXCEPT ![name].filter = BloomFilter_clear(@)]

\* mutant: clearing a filter that does not exist is reported as done
filter_clear_lenient(p) ==
    /\ pc[p] = "clear"
    /\ IF contains_key(db, req[p].name)
       THEN db' = clear_in(db, req[p].name)
       ELSE UNCHANGED db
    /\ Return(p, Named(OK, req[p].name))
    /\ UNCHANGED uuids

filter_clear(p) ==
    /\ pc[p] = "clear"
    /\ IF contains_key(db, req[p].name)
       THEN /\ db' = clear_in(db, req[p].name)
            /\ Return(p, Named(OK, req[p].name))
       ELSE /\ UNCHANGED db
            /\ Return(p, Named(NOT_FOUND, req[p].name))
    /\ UNCHANGED uuids

Next ==
    \E p \in Procs :
        \/ Request(p)
        \/ AcquireWrite(p)
        \/ AcquireRead(p)
        \/ create_check(p)
        \/ create_build(p)
        \/ delete_by_name(p)
        \/ delete_by_id(p)
        \/ filters_list(p)
        \/ filter_insert(p)
        \/ filter_lookup(p)
        \/ filter_clear(p)

Spec == Init /\ [][Next]_vars

\* ---- the handlers under a fair lock ----
\* The requests of the fair specification: one item and one sizing, so
\* that every handler and both modes of the lock are still exercised.  A
\* handler's path through the lock does not depend on the request's values.
LiveRequests ==
    {[NoReq EXCEPT !.op = "create", !.name = n, !.item_count = 1,
                   !.hash_count = h] : n \in Names, h \in {None, Some(1)}}
    \cup {[NoReq EXCEPT !.op = "delete", !.name = t] : t \in Tokens}
    \cup {[NoReq EXCEPT !.op = "list"]}
    \cup {[NoReq EXCEPT !.op = o, !.name = n, !.item = 1] :
            o \in {"insert", "lookup"}, n \in Names}
    \cup {[NoReq EXCEPT !.op = "clear", !.name = n] : n \in Names}

LiveRequest(p) ==
    /\ pc[p] = "idle"
    /\ \E r \in LiveRequests :
        /\ r.op = "create" => uuids + Cardinality(InFlightCreates) < MaxUuid
        /\ req' = [req EXCEPT ![p] = r]
        /\ pc' = [pc EXCEPT ![p] = "lock"]
    /\ resp' = [resp EXCEPT ![p] = NoResp]
    /\ UNCHANGED <<db, lock, uuids>>

\* a handler's steps once it holds its guard: none of them awaits
Body(p) ==
    \/ create_check(p)
    \/ create_build(p)
    \/ delete_by_name(p)
    \/ delete_by_id(p)
    \/ filters_list(p)
    \/ filter_insert(p)
    \/ filter_lookup(p)
    \/ filter_clear(p)

LiveNext ==
    \E p \in Procs :
        \/ LiveRequest(p)
        \/ AcquireWrite(p)
        \/ AcquireRead(p)
        \/ Body(p)

\* The runtime keeps running a handler that can run (weak fairness of its
\* steps), and the lock is fair: a caller that could take the lock again and
\* again does take it (strong fairness of the two acquisitions).  Callers need
\* not send requests.
Fairness ==
    \A p \in Procs :
        /\ WF_vars(Body(p))
        /\ SF_vars(AcquireWrite(p))
        /\ SF_vars(AcquireRead(p))

FairSpec == Init /\ [][LiveNext]_vars /\ Fairness

TypeOK ==
    /\ DOMAIN db \subseteq Names
    /\ lock.writer \in Procs \cup {0}
    /\ lock.readers \subseteq Procs
    /\ uuids \in 0..MaxUuid
    /\ \A p \in Procs : req[p] \in Requests \cup {NoReq}

\* ======================= properties =======================

\* the step in which p's handler returns its response
Completes(p) == pc[p] # "idle" /\ pc'[p] = "idle"
\* the step in which an operation of kind o by p returns
Returns(p, o) == req[p].op = o /\ Completes(p)
\* p has received the response to a request of kind o
Got(p, o, s) == pc[p] = "idle" /\ req[p].op = o /\ resp[p].status = s

\* C1: a create that gives a sizing field returns Created when no record has
\* its name, and then adds exactly that one record; any create that finds the
\* name taken (as the second of two racing creates does) returns NameConflict
\* and changes nothing.  The registry, a map keyed by name, so never holds two
\* records of one name and a create never replaces a record.
C1_NameUniqueness ==
    [][\A p \in Procs : Returns(p, "create") =>
        LET n == req[p].name
        IN IF contains_key(db, n)
           THEN resp'[p].status = CONFLICT /\ db' = db
           ELSE /\ resp'[p].status \in {CREATED, BAD_REQUEST}
                /\ (req[p].hash_count.some \/ req[p].false_positive_rate.some) =>
                    resp'[p].status = CREATED
                /\ resp'[p].status = CREATED =>
                    /\ DOMAIN db' = DOMAIN db \cup {n}
                    /\ db'[n].id = resp'[p].id
                    /\ \A k \in DOMAIN db : db'[k] = db[k]]_vars

\* two callers created the same name, the only name ever created: one got
\* Created and its record is registered, the other got NameConflict
C1_Witness ==
    \E p, q \in Procs :
        /\ p # q
        /\ Got(p, "create", CREATED)
        /\ Got(q, "create", CONFLICT)
        /\ req[p].name = req[q].name
        /\ contains_key(db, req[p].name)
        /\ db[req[p].name].id = resp[p].id
        /\ uuids = resp[p].id

\* the step is a successful clear of filter n, or the deletion of filter n
ClearsOrDeletes(n) ==
    \E p \in Procs :
        \/ Returns(p, "clear") /\ req[p].name = n
        \/ Returns(p, "delete") /\ resp'[p].status = OK /\ resp'[p].name = n

\* C2: a successful insert_item(n, x) leaves contains(n, x) true, and whatever
\* is contained in a filter stays contained over every step that is not a clear
\* or the deletion of that filter.
C2_NoFalseNegatives ==
    [][/\ \A p \in Procs :
            (Returns(p, "insert") /\ resp'[p].status = OK) =>
                /\ contains_key(db', req[p].name)
                /\ lookup_in(db', req[p].name, req[p].item)
       /\ \A n \in DOMAIN db : \A x \in Items :
            (lookup_in(db, n, x) /\ ~ClearsOrDeletes(n)) =>
                /\ contains_key(db', n)
                /\ lookup_in(db', n, x)]_vars

\* an item was inserted into a filter that holds other bits as well, and a
\* lookup of that item in that filter answered true
C2_Witness ==
    \E p, q \in Procs :
        /\ Got(p, "insert", OK)
        /\ Got(q, "lookup", OK)
        /\ resp[q].contains
        /\ req[p].name = req[q].name
        /\ req[p].item = req[q].item
        /\ contains_key(db, req[p].name)
        /\ lookup_in(db, req[p].name, req[p].item)
        /\ db[req[p].name].filter.bits #
              Indices(db[req[p].name].filter, req[p].item)

\* C3: a successful clear_filter(n) leaves contains(n, x) false for every item
\* x, and contains(n, x) turns from false to true only in a step that inserts,
\* into n, an item whose bit positions complete x's.
C3_ClearResets ==
    [][/\ \A p \in Procs :
            (Returns(p, "clear") /\ resp'[p].status = OK) =>
                /\ contains_key(db', req[p].name)
                /\ \A x \in Items : ~lookup_in(db', req[p].name, x)
       /\ \A n \in DOMAIN db \cap DOMAIN db' : \A x \in Items :
            (~lookup_in(db, n, x) /\ lookup_in(db', n, x)) =>
                \E p \in Procs :
                    /\ Returns(p, "insert")
                    /\ req[p].name = n
                    /\ Indices(db[n].filter, x) \subseteq
                         db[n].filter.bits \cup Indices(db[n].filter, req[p].item)]_vars

\* a filter that had an item inserted was cleared afterwards and is empty
C3_Witness ==
    \E p, q \in Procs :
        /\ Got(p, "clear", OK)
        /\ Got(q, "insert", OK)
        /\ req[p].name = req[q].name
        /\ contains_key(db, req[p].name)
        /\ db[req[p].name].filter.bits = {}
        /\ \A x \in Items : ~lookup_in(db, req[p].name, x)

\* the request gives neither hash_count nor false_positive_rate
Neither(r) == ~r.hash_count.some /\ ~r.false_positive_rate.some
\* the request gives both
Both(r) == r.hash_count.some /\ r.false_positive_rate.some

\* C4 as claimed: every create that gives neither sizing field returns
\* InvalidRequest and leaves the registry as it was.
C4_NeitherIsInvalid ==
    [][\A p \in Procs : (Returns(p, "create") /\ Neither(req[p])) =>
        /\ resp'[p].status = BAD_REQUEST
        /\ db' = db]_vars

\* C4 amended: a create that gives neither sizing field leaves the registry as
\* it was, and returns InvalidRequest when the name is not registered and
\* NameConflict when it is.
C4_NeitherIsRejected ==
    [][\A p \in Procs : (Returns(p, "create") /\ Neither(req[p])) =>
        /\ resp'[p].status =
              IF contains_key(db, req[p].name) THEN CONFLICT ELSE BAD_REQUEST
        /\ db' = db]_vars

\* a create without sizing fields was refused with InvalidRequest while the
\* registry held a record
C4_Witness ==
    \E p \in Procs :
        /\ Got(p, "create", BAD_REQUEST)
        /\ Neither(req[p])
        /\ db # EmptyMap

\* C5: a create that gives both hash_count and false_positive_rate, for a name
\* that is not registered, returns InvalidRequest and creates no record.
C5_BothIsInvalid ==
    [][\A p \in Procs :
        (Returns(p, "create") /\ Both(req[p]) /\ ~contains_key(db, req[p].name)) =>
            /\ resp'[p].status = BAD_REQUEST
            /\ db' = db]_vars

\* C6: delete(token) removes the record named token when there is one;
\* otherwise the record whose identifier is token when there is one; otherwise
\* it returns NotFound and changes nothing.  A successful delete removes exactly
\* one record and leaves the others as they were.
C6_DeleteTwoPhase ==
    [][\A p \in Procs : Returns(p, "delete") =>
        LET token == req[p].name
            byId == {k \in DOMAIN db : db[k].id = token}
            removed == DOMAIN db \ DOMAIN db'
        IN /\ DOMAIN db' \subseteq DOMAIN db
           /\ \A k \in DOMAIN db' : db'[k] = db[k]
           /\ IF token \in DOMAIN db
              THEN resp'[p].status = OK /\ removed = {token}
              ELSE IF byId # {}
                   THEN /\ resp'[p].status = OK
                        /\ Cardinality(removed) = 1
                        /\ removed \subseteq byId
                   ELSE resp'[p].status = NOT_FOUND /\ removed = {}]_vars

\* the token deleted was the name of one record and the identifier of an older
\* one: the record of that name is gone and the one with that identifier stays
C6_Witness ==
    \E p, q \in Procs : \E k \in DOMAIN db :
        /\ Got(p, "delete", OK)
        /\ Got(q, "create", CREATED)
        /\ resp[q].name = req[p].name
        /\ resp[q].id > db[k].id
        /\ db[k].id = req[p].name
        /\ ~contains_key(db, req[p].name)

\* what list() returns once record k is removed from what it returned before
ListWithout(d, k) == list_of(d) (-) SetToBag({ListItem(d[k])})

\* C7 as claimed: a delete by a record's identifier or by its name succeeds and
\* removes that record from what list() returns, keeping every other entry.
C7_DeleteRemovesRecord ==
    [][\A p \in Procs : \A k \in DOMAIN db :
        (Returns(p, "delete") /\ req[p].name \in {k, db[k].id}) =>
            /\ resp'[p].status = OK
            /\ list_of(db') = ListWithout(db, k)]_vars

\* C7 amended: a delete by a record's name, or by its identifier when no record
\* is named by that identifier, succeeds and removes that record from what
\* list() returns, keeping every other entry; list() is then empty when it was
\* the only record.
C7_DeleteRemovesUnshadowed ==
    [][\A p \in Procs : \A k \in DOMAIN db :
        (/\ Returns(p, "delete")
         /\ \/ req[p].name = k
            \/ req[p].name = db[k].id /\ ~contains_key(db, req[p].name)) =>
            /\ resp'[p].status = OK
            /\ list_of(db') = ListWithout(db, k)
            /\ \A i \in BagToSet(list_of(db')) : i.name # k /\ i.id # db[k].id
            /\ DOMAIN db = {k} => list_of(db') = EmptyBag]_vars

\* the only filter was deleted by the identifier its create returned
C7_Witness ==
    \E p, q \in Procs :
        /\ Got(p, "delete", OK)
        /\ Got(q, "create", CREATED)
        /\ req[p].name = resp[q].id
        /\ resp[p].name = resp[q].name
        /\ resp[p].name # req[p].name
        /\ db = EmptyMap
        /\ list_of(db) = EmptyBag

\* C8: insert_item, contains_item and clear_filter on a name that is not
\* registered return NotFound and leave the registry as it was.
C8_UnknownNameNotFound ==
    [][\A p \in Procs :
        (/\ Completes(p)
         /\ req[p].op \in {"insert", "lookup", "clear"}
         /\ ~contains_key(db, req[p].name)) =>
            /\ resp'[p].status = NOT_FOUND
            /\ db' = db]_vars

\* an insert into a filter that was created and has since been deleted got
\* NotFound, while another filter is registered
C8_Witness ==
    \E p, q \in Procs :
        /\ Got(p, "insert", NOT_FOUND)
        /\ Got(q, "create", CREATED)
        /\ resp[q].name = req[p].name
        /\ ~contains_key(db, req[p].name)
        /\ db # EmptyMap

\* the callers inside a handler that took the write lock, and the read lock
Writers == {p \in Procs : pc[p] \notin {"idle", "lock"} /\ IsWriter(req[p].op)}
Readers == {p \in Procs : pc[p] \notin {"idle", "lock"} /\ ~IsWriter(req[p].op)}

\* C9: at any time the lock is free, or held by readers only, or held by one
\* writer and no reader; the registry changes only in a step of the one writer,
\* and never while a reader holds the lock.
C9_ReaderWriterExclusion ==
    /\ [](/\ Cardinality(Writers) <= 1
          /\ Writers # {} => Readers = {}
          /\ Writers = {p \in Procs : lock.writer = p}
          /\ Readers = lock.readers)
    /\ [][db' # db => /\ Readers = {}
                      /\ \E p \in Writers : pc'[p] # pc[p]]_vars

\* two readers hold the lock together while a record is registered
C9_Witness ==
    /\ Cardinality(Readers) >= 2
    /\ Readers = lock.readers
    /\ db # EmptyMap

\* C10: list() leaves the registry as it was and returns one entry per
\* registered filter, carrying that record's identifier, name, capacity and
\* creation mode; contains_item leaves the registry as it was too.
C10_ListIsSnapshot ==
    [][\A p \in Procs :
        /\ Returns(p, "list") =>
            /\ db' = db
            /\ resp'[p].status = OK
            /\ BagCardinality(resp'[p].list) = Cardinality(DOMAIN db)
            /\ \A k \in DOMAIN db : \E i \in BagToSet(resp'[p].list) :
                /\ i.name = k
                /\ i.id = db[k].id
                /\ i.item_count = db[k].capacity
                /\ i.config.arg = db[k].creation_mode.val
                /\ i.config.text =
                      IF db[k].creation_mode.kind = "HashCount"
                      THEN "Hash count: " ELSE "False positive rate: "
        /\ Returns(p, "lookup") => db' = db]_vars

\* a list of two filters is still in its caller's hands after both were deleted
C10_Witness ==
    \E p \in Procs :
        /\ Got(p, "list", OK)
        /\ BagCardinality(resp[p].list) = 2
        /\ db = EmptyMap

\* C11: no two registered records ever share an identifier, and as long as a
\* name stays registered its record keeps its identifier and its display name.
C11_IdentifiersUniqueAndFixed ==
    /\ [](\A j, k \in DOMAIN db : db[j].id = db[k].id => j = k)
    /\ [][\A k \in DOMAIN db \cap DOMAIN db' :
            /\ db'[k].id = db[k].id
            /\ db'[k].name = db[k].name]_vars

\* two records are registered, with different identifiers, and one of them
\* has had items inserted
C11_Witness ==
    /\ Cardinality(DOMAIN db) = 2
    /\ \E j, k \in DOMAIN db : db[j].id # db[k].id /\ db[j].filter.bits # {}
    /\ \E p \in Procs : Got(p, "insert", OK)

\* the record without its filter's bits
Frame(c) == [c EXCEPT !.filter.bits = {}]

\* C12: a clear_filter or insert_item keeps the set of registered names, and
\* (succeeding exactly when the addressed name is registered) keeps that
\* record's identifier, name, capacity, creation mode and its filter's
\* bit-array size m and hash count k.
C12_OnlyBitsChange ==
    [][\A p \in Procs :
        (Completes(p) /\ req[p].op \in {"insert", "clear"}) =>
            /\ DOMAIN db' = DOMAIN db
            /\ resp'[p].status = OK <=> contains_key(db, req[p].name)
            /\ contains_key(db, req[p].name) =>
                /\ db'[req[p].name].filter.m = db[req[p].name].filter.m
                /\ db'[req[p].name].filter.k = db[req[p].name].filter.k
                /\ Frame(db'[req[p].name]) = Frame(db[req[p].name])]_vars

\* a filter sized by false-positive rate was cleared and then had an item
\* inserted: it has bits set and still the size it was created with
C12_Witness ==
    \E p, q \in Procs :
        /\ Got(p, "clear", OK)
        /\ Got(q, "insert", OK)
        /\ req[p].name = req[q].name
        /\ contains_key(db, req[p].name)
        /\ db[req[p].name].creation_mode.kind = "FalsePositiveRate"
        /\ db[req[p].name].filter.bits # {}
        /\ db[req[p].name].filter =
              [BloomFilter_new(db[req[p].name].capacity, db[req[p].name].creation_mode)
                  EXCEPT !.bits = db[req[p].name].filter.bits]

\* C13: a create with item_count 0 (a sizing field given, the name not
\* registered) is rejected with InvalidRequest and leaves the registry as it
\* was.
C13_ZeroCountRejected ==
    [][\A p \in Procs :
        (/\ Returns(p, "create")
         /\ req[p].item_count = 0
         /\ ~Neither(req[p])
         /\ ~contains_key(db, req[p].name)) =>
            /\ resp'[p].status = BAD_REQUEST
            /\ db' = db]_vars

\* p holds a guard of the lock
Holds(p) == lock.writer = p \/ p \in lock.readers

\* C14: under a fair lock every invoked operation eventually acquires the
\* lock, can always take its next step while it holds the lock, and eventually
\* returns, holding the lock no longer; so no caller waits forever.
C14_OperationsComplete ==
    /\ [](\A p \in Procs : Holds(p) <=> pc[p] \notin {"idle", "lock"})
    /\ [](\A p \in Procs : Holds(p) => ENABLED Body(p))
    /\ \A p \in Procs : (pc[p] = "lock") ~> Holds(p)
    /\ \A p \in Procs : (pc[p] # "idle") ~> (pc[p] = "idle")

\* a writer waits for the lock while another caller reads under it
C14_Witness ==
    \E p, q \in Procs :
        /\ pc[p] = "lock"
        /\ IsWriter(req[p].op)
        /\ q \in lock.readers
        /\ pc[q] = "list"

\* C15: a create that returns NameConflict leaves the record of that name as
\* it was (identifier, capacity, creation mode, and the answer to every
\* lookup), leaves every other record as it was, and list() returns what it
\* returned before.
C15_ConflictChangesNothing ==
    [][\A p \in Procs :
        (Returns(p, "create") /\ resp'[p].status = CONFLICT) =>
            LET n == req[p].name
            IN /\ contains_key(db, n) /\ contains_key(db', n)
               /\ db'[n].id = db[n].id
               /\ db'[n].capacity = db[n].capacity
               /\ db'[n].creation_mode = db[n].creation_mode
               /\ \A x \in Items : lookup_in(db', n, x) = lookup_in(db, n, x)
               /\ list_of(db') = list_of(db)
               /\ DOMAIN db' = DOMAIN db]_vars

\* a create got NameConflict on a filter that holds an inserted item
C15_Witness ==
    \E p, q \in Procs :
        /\ Got(p, "create", CONFLICT)
        /\ Got(q, "insert", OK)
        /\ req[p].name = req[q].name
        /\ contains_key(db, req[p].name)
        /\ lookup_in(db, req[p].name, req[q].item)

\* C16: right after a create returns Created, the filter of that name contains
\* no item, and the record carries the identifier the response gives, one that
\* no record created before (registered still or deleted since) has carried.
C16_NewFilterIsEmpty ==
    [][\A p \in Procs :
        (Returns(p, "create") /\ resp'[p].status = CREATED) =>
            LET n == req[p].name
            IN /\ contains_key(db', n)
               /\ \A x \in Items : ~lookup_in(db', n, x)
               /\ db'[n].id = resp'[p].id
               /\ resp'[p].id > uuids
               /\ \A k \in DOMAIN db : db[k].id <= uuids]_vars

\* a name was created, had an item inserted, was deleted and created again:
\* the second record is empty
C16_Witness ==
    \E p, q \in Procs :
        /\ Got(p, "create", CREATED)
        /\ Got(q, "insert", OK)
        /\ req[p].name = req[q].name
        /\ resp[p].id = 2
        /\ DOMAIN db = {req[p].name}
        /\ db[req[p].name].id = 2
        /\ \A x \in Items : ~lookup_in(db, req[p].name, x)

\* C17: an insert_item or clear_filter on filter a leaves every other filter
\* b registered and leaves contains(b, y) as it was for every item y.
C17_FiltersIndependent ==
    [][\A p \in Procs :
        (Completes(p) /\ req[p].op \in {"insert", "clear"}) =>
            \A b \in DOMAIN db \ {req[p].name} :
                /\ contains_key(db', b)
                /\ \A y \in Items : lookup_in(db', b, y) = lookup_in(db, b, y)]_vars

\* one filter was cleared while another filter, which had an item inserted,
\* still contains it
C17_Witness ==
    \E p, q \in Procs :
        /\ Got(p, "clear", OK)
        /\ Got(q, "insert", OK)
        /\ req[p].name # req[q].name
        /\ contains_key(db, req[p].name)
        /\ contains_key(db, req[q].name)
        /\ lookup_in(db, req[q].name, req[q].item)

\* C18: every entry of the registry is keyed by its own record's display name.
C18_KeyedByName == \A k \in DOMAIN db : db[k].name = k

\* two records are registered and a list() has reported both
C18_Witness ==
    /\ Cardinality(DOMAIN db) = 2
    /\ \E p \in Procs :
        /\ Got(p, "list", OK)
        /\ {i.name : i \in BagToSet(resp[p].list)} = DOMAIN db

\* C19: a create for a registered name that gives neither sizing field returns
\* NameConflict, not InvalidRequest, and leaves the registry as it was.
C19_ConflictBeforeSizing ==
    [][\A p \in Procs :
        (Returns(p, "create") /\ Neither(req[p]) /\ contains_key(db, req[p].name)) =>
            /\ resp'[p].status = CONFLICT
            /\ resp'[p].status # BAD_REQUEST
            /\ db' = db
            /\ uuids' = uuids]_vars

\* a create without sizing fields got NameConflict for a registered name
C19_Witness ==
    \E p \in Procs :
        /\ Got(p, "create", CONFLICT)
        /\ Neither(req[p])
        /\ contains_key(db, req[p].name)

=============================================================================
